---------------------------- MODULE Spec2Model ----------------------------
(***************************************************************************)
(* Model of HIP/with_mpi/vAdd_hip.cpp: an MPI program in which every rank  *)
(* adds two vectors on a GPU, checks the mean of the result against 1.0    *)
(* and takes part in two MPI_MAX reductions rooted at rank 0.              *)
(*                                                                         *)
(* Representation choices.                                                 *)
(*  - A buffer of N doubles is a sequence of runs [len, val]: len equal    *)
(*    consecutive elements.  Buffers are kept normalised (no empty run, no *)
(*    two adjacent runs with the same value), so two buffers hold the same *)
(*    elements iff they are equal.                                         *)
(*  - A double near 1.0 is a pair [w, e] standing for w/2 + e * 2^-53:     *)
(*    w counts halves, e counts quanta of 2^-53 (the spacing of doubles    *)
(*    just below 1.0).  Addition adds both parts.  Rounding inside the     *)
(*    summation loop is not modelled; the mean is rounded to a quantum.    *)
(*  - Undef is the content of memory that was allocated and never written. *)
(*  - float(N) keeps a 24 bit significand, rounding to nearest even.       *)
(***************************************************************************)
EXTENDS Integers, Sequences, FiniteSets, TLC

\* ------------------------------------------------------------------ bounds
MaxN == 2
MaxRanks == 2
MaxMs == 2
MaxWtime == 1

\* ------------------------------------------------- program constants
\* line 51: long long int N = 256*1024*1024
RefN == 256 * 1024 * 1024
\* line 81: int thr_per_blk = 256
ThrPerBlk == 256
\* significand width of the float in float(N), line 82
FloatBits == 24
\* line 53: tolerance = 1.0e-14 lies strictly between 90 and 91 quanta of
\* 2^-53 (1.0e-14 * 2^53 = 90.07...), so "x > tolerance" is "x > 90" for
\* every x that is a whole number of quanta.
TolQuanta == 90
\* exit status of a process killed by SIGSEGV (128 + 11)
SegvStatus == 128 + 11

\* the smallest length that float(N) cannot represent
BigN == 2^24 + 1
\* a length that is one more than a whole number of groups
EdgeN == ThrPerBlk + 1

NValues == (1..MaxN) \cup {EdgeN, BigN, RefN}

\* ------------------------------------------------------------- values
Undef == [w |-> -1, e |-> 0]
Zero == [w |-> 0, e |-> 0]
One == [w |-> 2, e |-> 0]
IsDef(v) == v.w >= 0

\* a[id] + b[id] of line 24
AddVal(x, y) ==
  IF IsDef(x) /\ IsDef(y) THEN [w |-> x.w + y.w, e |-> x.e + y.e] ELSE Undef

\* the values rand()/RAND_MAX takes in the model: 0 is the exact case
\* sin(0) = 0, cos(0) = 1; 1 is a generic value whose squares are both near
\* one half and add up to 1.0 plus a rounding error of one quantum
SeedVals == {0, 1}

\* line 63: sin(random_value) * sin(random_value)
Sin2(r) == IF r = 0 THEN Zero ELSE [w |-> 1, e |-> 0]
\* line 64: cos(random_value) * cos(random_value)
Cos2(r) == IF r = 0 THEN One ELSE [w |-> 1, e |-> 1]

\* what an uninitialised double may turn out to hold when it is read
GarbageVals == {Zero, One}

\* ------------------------------------------------------------- runs
Min(a, b) == IF a <= b THEN a ELSE b
Abs(x) == IF x < 0 THEN -x ELSE x

Run(n, v) == [len |-> n, val |-> v]
Fill(n, v) == IF n > 0 THEN <<Run(n, v)>> ELSE <<>>

RECURSIVE TotalLen(_)
TotalLen(rs) == IF rs = <<>> THEN 0 ELSE rs[1].len + TotalLen(Tail(rs))

RECURSIVE Norm(_)
Norm(rs) ==
  IF rs = <<>> THEN <<>>
  ELSE IF rs[1].len = 0 THEN Norm(Tail(rs))
  ELSE LET t == Norm(Tail(rs)) IN
       IF t # <<>> /\ t[1].val = rs[1].val
       THEN <<Run(rs[1].len + t[1].len, rs[1].val)>> \o Tail(t)
       ELSE <<rs[1]>> \o t

\* the first k elements
RECURSIVE Take(_, _)
Take(rs, k) ==
  IF k <= 0 \/ rs = <<>> THEN <<>>
  ELSE IF rs[1].len >= k THEN <<Run(k, rs[1].val)>>
  ELSE <<rs[1]>> \o Take(Tail(rs), k - rs[1].len)

\* all but the first k elements
RECURSIVE Drop(_, _)
Drop(rs, k) ==
  IF rs = <<>> THEN <<>>
  ELSE IF k <= 0 THEN rs
  ELSE IF rs[1].len > k THEN <<Run(rs[1].len - k, rs[1].val)>> \o Tail(rs)
  ELSE Drop(Tail(rs), k - rs[1].len)

\* elementwise a[i] + b[i] over the common length
RECURSIVE ZipAdd(_, _)
ZipAdd(a, b) ==
  IF a = <<>> \/ b = <<>> THEN <<>>
  ELSE LET m == Min(a[1].len, b[1].len) IN
       <<Run(m, AddVal(a[1].val, b[1].val))>> \o ZipAdd(Drop(a, m), Drop(b, m))

RECURSIVE MapRuns(_, _)
MapRuns(F(_), rs) ==
  IF rs = <<>> THEN <<>>
  ELSE <<Run(rs[1].len, F(rs[1].val))>> \o MapRuns(F, Tail(rs))

\* ------------------------------------------------- float and int arithmetic
\* the exponent e with 2^e <= x < 2^(e+1), for 0 < x < 2^31
ExpOf(x) == CHOOSE e \in 0..30 : x \div (2^e) = 1

\* float(N) of line 82: x rounded to FloatBits significant bits, ties to even
ToFloat(x) ==
  LET e == ExpOf(x) IN
  IF e < FloatBits THEN x
  ELSE LET ulp == 2^(e - FloatBits + 1)
           q == x \div ulp
           r == x % ulp
           up == (2 * r > ulp) \/ (2 * r = ulp /\ q % 2 = 1)
       IN  (IF up THEN q + 1 ELSE q) * ulp

\* ceil(num / den) of line 82; the float division by thr_per_blk = 256.0f, a
\* power of two, is exact
CeilDiv(num, den) == (num + den - 1) \div den

\* lines 81-82: blk_in_grid = ceil( float(N) / thr_per_blk )
BlkInGrid(n) == CeilDiv(ToFloat(n), ThrPerBlk)

\* x / n rounded to the nearest integer, ties to even, for x >= 0, n > 0
RoundDiv(x, n) ==
  LET q == x \div n
      r == x % n
  IN  IF 2 * r > n \/ (2 * r = n /\ q % 2 = 1) THEN q + 1 ELSE q

\* ------------------------------------------------------------ the kernel
\* line 23: int id = blockDim.x * blockIdx.x + threadIdx.x
GlobalId(blockDim, blockIdx, threadIdx) == blockDim * blockIdx + threadIdx

\* the guard off by one: id <= n
GuardOffByOne(id, n) == id <= n

\* line 24: if(id < n)
Guard(id, n) == id < n

\* The work-items of a grid of blk groups of thr work-items have the ids
\* 0 .. thr*blk - 1, and the guard of line 24 is monotone in id, so the
\* work-items that pass it are an initial segment of the ids.  Active is the
\* length of that segment: the k whose predecessor passes the guard and which
\* itself does not (or is past the grid).
Active(thr, blk, n) ==
  LET last == GlobalId(thr, blk - 1, thr - 1)
      cand == {k \in {0, n - 1, n, n + 1, last + 1} : 0 <= k /\ k <= last + 1}
  IN  IF blk <= 0 THEN 0
      ELSE CHOOSE k \in cand :
             /\ k = 0 \/ Guard(k - 1, n)
             /\ k = last + 1 \/ ~Guard(k, n)

\* the ids of the grid at or beyond the buffer length len that pass the guard
\* (each of them reads a[id], b[id] and writes c[id], line 24)
OutOfRange(thr, blk, n, len) ==
  {id \in len..GlobalId(thr, blk - 1, thr - 1) : Guard(id, n)}

\* lines 21-25 over the whole grid: the new contents of c
add_vectors(a, b, c, n, thr, blk) ==
  LET k == Min(Active(thr, blk, n), TotalLen(c)) IN
  Norm(Take(ZipAdd(a, b), k) \o Drop(c, k))

\* ------------------------------------------------------------------ state
VARIABLES
  size,                \* MPI_Comm_size, line 34
  N,                   \* the array length, line 51
  pc,                  \* where each rank is in main
  exit_code,           \* the status a rank terminated with, NoExit before
  hip_err,             \* the line of the HIP call whose status was an error
  mpi,                 \* "pre", "active" (after MPI_Init), "finalized"
  start_time, end_time, elapsed_time,
  A, B, C,             \* host buffers: [st, data]
  d_A, d_B, d_C,       \* device buffers: [st, data]
  ev_start, ev_end,    \* the hipEvent_t start and end
  blk_in_grid,
  kernel,              \* the launch: "none", "queued", "done", "failed"
  oob,                 \* ids outside [0, N) the kernel accessed
  milliseconds,
  gpu_contrib,         \* what each rank sent into the first MPI_Reduce
  wall_contrib,        \* what each rank sent into the second MPI_Reduce
  max_gpu_time, total_time_max,
  relative_difference,
  printed,             \* how many times each rank printed the report
  hip_calls,           \* the HIP calls each rank has made, in order
  reduces,             \* the MPI_Reduce calls each rank has made, in order
  report               \* the two times rank 0 printed, lines 129-130

ctl == <<pc, exit_code, hip_err>>
cfg == <<size, N>>
wall == <<start_time, end_time, elapsed_time>>
host == <<A, B, C>>
dev == <<d_A, d_B, d_C>>
evs == <<ev_start, ev_end>>
krn == <<blk_in_grid, kernel, oob>>
red == <<gpu_contrib, wall_contrib, max_gpu_time, total_time_max>>
log == <<hip_calls, reduces, report>>
vars == <<ctl, cfg, mpi, wall, host, dev, evs, krn, milliseconds, red,
          relative_difference, printed, log>>

Ranks == 0..(size - 1)
NoExit == -1
NoVal == -1
NoBuf == [st |-> "none", data |-> <<>>]
NoReport == <<>>

Init ==
  /\ size \in 1..MaxRanks
  /\ N \in NValues
  /\ pc = [p \in 0..(size - 1) |-> "MPI_Init"]
  /\ exit_code = [p \in 0..(size - 1) |-> NoExit]
  /\ hip_err = [p \in 0..(size - 1) |-> 0]
  /\ mpi = [p \in 0..(size - 1) |-> "pre"]
  /\ start_time = [p \in 0..(size - 1) |-> NoVal]
  /\ end_time = [p \in 0..(size - 1) |-> NoVal]
  /\ elapsed_time = [p \in 0..(size - 1) |-> NoVal]
  /\ A = [p \in 0..(size - 1) |-> NoBuf]
  /\ B = [p \in 0..(size - 1) |-> NoBuf]
  /\ C = [p \in 0..(size - 1) |-> NoBuf]
  /\ d_A = [p \in 0..(size - 1) |-> NoBuf]
  /\ d_B = [p \in 0..(size - 1) |-> NoBuf]
  /\ d_C = [p \in 0..(size - 1) |-> NoBuf]
  /\ ev_start = [p \in 0..(size - 1) |-> "none"]
  /\ ev_end = [p \in 0..(size - 1) |-> "none"]
  /\ blk_in_grid = [p \in 0..(size - 1) |-> 0]
  /\ kernel = [p \in 0..(size - 1) |-> "none"]
  /\ oob = [p \in 0..(size - 1) |-> {}]
  /\ milliseconds = [p \in 0..(size - 1) |-> NoVal]
  /\ gpu_contrib = [p \in 0..(size - 1) |-> NoVal]
  /\ wall_contrib = [p \in 0..(size - 1) |-> NoVal]
  /\ max_gpu_time = [p \in 0..(size - 1) |-> NoVal]
  /\ total_time_max = [p \in 0..(size - 1) |-> NoVal]
  /\ relative_difference = [p \in 0..(size - 1) |-> NoVal]
  /\ printed = [p \in 0..(size - 1) |-> 0]
  /\ hip_calls = [p \in 0..(size - 1) |-> <<>>]
  /\ reduces = [p \in 0..(size - 1) |-> <<>>]
  /\ report = [p \in 0..(size - 1) |-> NoReport]

\* ------------------------------------------------------------ control
Goto(p, l) ==
  /\ pc' = [pc EXCEPT ![p] = l]
  /\ UNCHANGED <<exit_code, hip_err>>

\* line 14: the status hipErrorCheck exits with
HipErrorExit == 0

\* lines 9-16: hipErrorCheck(call), where ok says call returned hipSuccess,
\* line is the call site and next the statement after it
hipErrorCheck(p, ok, line, next) ==
  IF ok THEN Goto(p, next)
  ELSE /\ pc' = [pc EXCEPT ![p] = "exited"]
       /\ exit_code' = [exit_code EXCEPT ![p] = HipErrorExit]
       /\ hip_err' = [hip_err EXCEPT ![p] = line]

\* ------------------------------------------------------ host buffer manager
\* lines 31-45: MPI_Init, MPI_Comm_size, MPI_Comm_rank, the banner of rank 0
MpiInit(p) ==
  /\ pc[p] = "MPI_Init"
  /\ mpi' = [mpi EXCEPT ![p] = "active"]
  /\ Goto(p, "start_timer")
  /\ UNCHANGED <<cfg, wall, host, dev, evs, krn, milliseconds, red,
                 relative_difference, printed, log>>

\* line 48: start_time = MPI_Wtime()
StartTimer(p) ==
  /\ pc[p] = "start_timer"
  /\ \E t \in 0..(MaxWtime - 1) : start_time' = [start_time EXCEPT ![p] = t]
  /\ Goto(p, "malloc")
  /\ UNCHANGED <<cfg, mpi, end_time, elapsed_time, host, dev, evs, krn,
                 milliseconds, red, relative_difference, printed, log>>

\* malloc(buffer_size): a block of N uninitialised doubles, or NULL
Malloc(ok) ==
  IF ok THEN [st |-> "ok", data |-> Fill(N, Undef)] ELSE [st |-> "null", data |-> <<>>]

\* lines 57-59: the three mallocs; none of the results is tested
HostAlloc(p) ==
  /\ pc[p] = "malloc"
  /\ \E okA \in BOOLEAN, okB \in BOOLEAN, okC \in BOOLEAN :
       /\ A' = [A EXCEPT ![p] = Malloc(okA)]
       /\ B' = [B EXCEPT ![p] = Malloc(okB)]
       /\ C' = [C EXCEPT ![p] = Malloc(okC)]
  /\ Goto(p, "seed")
  /\ UNCHANGED <<cfg, mpi, wall, dev, evs, krn, milliseconds, red,
                 relative_difference, printed, log>>

\* the sequences of random values the seeding loop may draw, as runs
SeedPatterns(n) ==
  {Fill(n, r) : r \in SeedVals}
    \cup {<<Run(1, r1), Run(n - 1, r2)>> :
            r1 \in (IF n > 1 THEN SeedVals ELSE {}), r2 \in SeedVals}

\* lines 61-66 with the three buffers allocated
SeedLoop(p) ==
  /\ pc[p] = "seed"
  /\ A[p].st = "ok" /\ B[p].st = "ok" /\ C[p].st = "ok"
  /\ \E rs \in SeedPatterns(N) :
       /\ A' = [A EXCEPT ![p].data = Norm(MapRuns(Sin2, rs))]
       /\ B' = [B EXCEPT ![p].data = Norm(MapRuns(Cos2, rs))]
       /\ C' = [C EXCEPT ![p].data = Fill(N, Zero)]
  /\ Goto(p, "hipMalloc_A")
  /\ UNCHANGED <<cfg, mpi, wall, dev, evs, krn, milliseconds, red,
                 relative_difference, printed, log>>

\* buf with element 0 set to v
Poke(buf, v) == [buf EXCEPT !.data = Norm(<<Run(1, v)>> \o Drop(buf.data, 1))]

\* lines 61-66 with a NULL buffer: iteration 0 stores through the null pointer,
\* which is undefined; the process is killed by SIGSEGV at the first such
\* store, after the stores of iteration 0 that precede it in lines 63-65
SeedLoopNull(p) ==
  /\ pc[p] = "seed"
  /\ A[p].st = "null" \/ B[p].st = "null" \/ C[p].st = "null"
  /\ \E r \in SeedVals :
       /\ A' = [A EXCEPT ![p] = IF A[p].st = "ok" THEN Poke(A[p], Sin2(r)) ELSE A[p]]
       /\ B' = [B EXCEPT ![p] = IF A[p].st = "ok" /\ B[p].st = "ok"
                                  THEN Poke(B[p], Cos2(r)) ELSE B[p]]
  /\ pc' = [pc EXCEPT ![p] = "crashed"]
  /\ exit_code' = [exit_code EXCEPT ![p] = SegvStatus]
  /\ UNCHANGED <<hip_err, cfg, mpi, wall, C, dev, evs, krn, milliseconds, red,
                 relative_difference, printed, log>>

\* ---------------------------------------------------- device execution engine
\* rank p makes the HIP call fn(args), which succeeds or not
HipCall(p, fn, args, ok) ==
  /\ hip_calls' = [hip_calls EXCEPT ![p] = Append(@, [fn |-> fn, args |-> args, ok |-> ok])]
  /\ UNCHANGED <<reduces, report>>

\* hipMalloc(&d, buffer_size): N uninitialised doubles of device memory
HipMalloc(old, ok) == IF ok THEN [st |-> "ok", data |-> Fill(N, Undef)] ELSE old

\* line 69
HipMallocA(p) ==
  /\ pc[p] = "hipMalloc_A"
  /\ \E ok \in BOOLEAN :
       /\ d_A' = [d_A EXCEPT ![p] = HipMalloc(d_A[p], ok)]
       /\ HipCall(p, "hipMalloc", <<"d_A">>, ok)
       /\ hipErrorCheck(p, ok, 69, "hipMalloc_B")
  /\ UNCHANGED <<cfg, mpi, wall, host, d_B, d_C, evs, krn, milliseconds, red,
                 relative_difference, printed>>

\* line 70
HipMallocB(p) ==
  /\ pc[p] = "hipMalloc_B"
  /\ \E ok \in BOOLEAN :
       /\ d_B' = [d_B EXCEPT ![p] = HipMalloc(d_B[p], ok)]
       /\ HipCall(p, "hipMalloc", <<"d_B">>, ok)
       /\ hipErrorCheck(p, ok, 70, "hipMalloc_C")
  /\ UNCHANGED <<cfg, mpi, wall, host, d_A, d_C, evs, krn, milliseconds, red,
                 relative_difference, printed>>

\* line 71
HipMallocC(p) ==
  /\ pc[p] = "hipMalloc_C"
  /\ \E ok \in BOOLEAN :
       /\ d_C' = [d_C EXCEPT ![p] = HipMalloc(d_C[p], ok)]
       /\ HipCall(p, "hipMalloc", <<"d_C">>, ok)
       /\ hipErrorCheck(p, ok, 71, "hipMemcpy_A")
  /\ UNCHANGED <<cfg, mpi, wall, host, d_A, d_B, evs, krn, milliseconds, red,
                 relative_difference, printed>>

\* hipMemcpy(dst, src, buffer_size, kind): the N elements of src into dst
HipMemcpy(dst, src, ok) ==
  IF ok THEN [dst EXCEPT !.data = Norm(Take(src.data, N) \o Drop(dst.data, N))]
  ELSE dst

\* line 73
HipMemcpyA(p) ==
  /\ pc[p] = "hipMemcpy_A"
  /\ \E ok \in BOOLEAN :
       /\ d_A' = [d_A EXCEPT ![p] = HipMemcpy(d_A[p], A[p], ok)]
       /\ HipCall(p, "hipMemcpy", <<"d_A", "A", "hipMemcpyHostToDevice">>, ok)
       /\ hipErrorCheck(p, ok, 73, "hipMemcpy_B")
  /\ UNCHANGED <<cfg, mpi, wall, host, d_B, d_C, evs, krn, milliseconds, red,
                 relative_difference, printed>>

\* line 74
HipMemcpyB(p) ==
  /\ pc[p] = "hipMemcpy_B"
  /\ \E ok \in BOOLEAN :
       /\ d_B' = [d_B EXCEPT ![p] = HipMemcpy(d_B[p], B[p], ok)]
       /\ HipCall(p, "hipMemcpy", <<"d_B", "B", "hipMemcpyHostToDevice">>, ok)
       /\ hipErrorCheck(p, ok, 74, "hipEventCreate_start")
  /\ UNCHANGED <<cfg, mpi, wall, host, d_A, d_C, evs, krn, milliseconds, red,
                 relative_difference, printed>>

\* line 77
HipEventCreateStart(p) ==
  /\ pc[p] = "hipEventCreate_start"
  /\ \E ok \in BOOLEAN :
       /\ ev_start' = [ev_start EXCEPT ![p] = IF ok THEN "created" ELSE @]
       /\ HipCall(p, "hipEventCreate", <<"start">>, ok)
       /\ hipErrorCheck(p, ok, 77, "hipEventCreate_end")
  /\ UNCHANGED <<cfg, mpi, wall, host, dev, ev_end, krn, milliseconds, red,
                 relative_difference, printed>>

\* line 78
HipEventCreateEnd(p) ==
  /\ pc[p] = "hipEventCreate_end"
  /\ \E ok \in BOOLEAN :
       /\ ev_end' = [ev_end EXCEPT ![p] = IF ok THEN "created" ELSE @]
       /\ HipCall(p, "hipEventCreate", <<"end">>, ok)
       /\ hipErrorCheck(p, ok, 78, "config")
  /\ UNCHANGED <<cfg, mpi, wall, host, dev, ev_start, krn, milliseconds, red,
                 relative_difference, printed>>

\* lines 81-82
SetConfig(p) ==
  /\ pc[p] = "config"
  /\ blk_in_grid' = [blk_in_grid EXCEPT ![p] = BlkInGrid(N)]
  /\ Goto(p, "hipEventRecord_start")
  /\ UNCHANGED <<cfg, mpi, wall, host, dev, evs, kernel, oob, milliseconds, red,
                 relative_difference, printed, log>>

\* line 84
HipEventRecordStart(p) ==
  /\ pc[p] = "hipEventRecord_start"
  /\ \E ok \in BOOLEAN :
       /\ ev_start' = [ev_start EXCEPT ![p] = IF ok THEN "recorded" ELSE @]
       /\ HipCall(p, "hipEventRecord", <<"start">>, ok)
       /\ hipErrorCheck(p, ok, 84, "launch")
  /\ UNCHANGED <<cfg, mpi, wall, host, dev, ev_end, krn, milliseconds, red,
                 relative_difference, printed>>

\* line 85: hipLaunchKernelGGL returns nothing; the launch is queued on the
\* null stream, or fails, and main goes on either way
Launch(p) ==
  /\ pc[p] = "launch"
  /\ \E ok \in BOOLEAN :
       /\ kernel' = [kernel EXCEPT ![p] = IF ok THEN "queued" ELSE "failed"]
       /\ HipCall(p, "hipLaunchKernelGGL", <<"add_vectors", "d_A", "d_B", "d_C">>, ok)
  /\ Goto(p, "hipEventRecord_end")
  /\ UNCHANGED <<cfg, mpi, wall, host, dev, evs, blk_in_grid, oob, milliseconds,
                 red, relative_difference, printed>>

\* the device runs the queued grid: lines 21-25 for every work-item
KernelRun(p) ==
  /\ kernel[p] = "queued"
  /\ kernel' = [kernel EXCEPT ![p] = "done"]
  /\ d_C' = [d_C EXCEPT ![p].data =
               add_vectors(d_A[p].data, d_B[p].data, @, N, ThrPerBlk, blk_in_grid[p])]
  /\ oob' = [oob EXCEPT ![p] = OutOfRange(ThrPerBlk, blk_in_grid[p], N, N)]
  /\ UNCHANGED <<ctl, cfg, mpi, wall, host, d_A, d_B, evs, blk_in_grid,
                 milliseconds, red, relative_difference, printed, log>>

\* line 87
HipEventRecordEnd(p) ==
  /\ pc[p] = "hipEventRecord_end"
  /\ \E ok \in BOOLEAN :
       /\ ev_end' = [ev_end EXCEPT ![p] = IF ok THEN "recorded" ELSE @]
       /\ HipCall(p, "hipEventRecord", <<"end">>, ok)
       /\ hipErrorCheck(p, ok, 87, "hipEventSynchronize")
  /\ UNCHANGED <<cfg, mpi, wall, host, dev, ev_start, krn, milliseconds, red,
                 relative_difference, printed>>

\* a synchronisation that returns while the kernel is still queued
HipEventSynchronizeNoWait(p) ==
  /\ pc[p] = "hipEventSynchronize"
  /\ \E ok \in BOOLEAN :
       /\ HipCall(p, "hipEventSynchronize", <<"end">>, ok)
       /\ hipErrorCheck(p, ok, 88, "hipEventElapsedTime")
  /\ UNCHANGED <<cfg, mpi, wall, host, dev, evs, krn, milliseconds, red,
                 relative_difference, printed>>

\* line 88: returns once the work queued before the end event is over
HipEventSynchronize(p) ==
  /\ pc[p] = "hipEventSynchronize"
  /\ kernel[p] # "queued"
  /\ \E ok \in BOOLEAN :
       /\ HipCall(p, "hipEventSynchronize", <<"end">>, ok)
       /\ hipErrorCheck(p, ok, 88, "hipEventElapsedTime")
  /\ UNCHANGED <<cfg, mpi, wall, host, dev, evs, krn, milliseconds, red,
                 relative_difference, printed>>

\* lines 89-90
HipEventElapsedTime(p) ==
  /\ pc[p] = "hipEventElapsedTime"
  /\ \E ok \in BOOLEAN :
       /\ \E ms \in 1..MaxMs :
            milliseconds' = [milliseconds EXCEPT ![p] = IF ok THEN ms ELSE 0]
       /\ HipCall(p, "hipEventElapsedTime", <<"milliseconds", "start", "end">>, ok)
       /\ hipErrorCheck(p, ok, 90, "hipMemcpy_C")
  /\ UNCHANGED <<cfg, mpi, wall, host, dev, evs, krn, red, relative_difference,
                 printed>>

\* line 92
HipMemcpyC(p) ==
  /\ pc[p] = "hipMemcpy_C"
  /\ kernel[p] # "queued"
  /\ \E ok \in BOOLEAN :
       /\ C' = [C EXCEPT ![p] = HipMemcpy(C[p], d_C[p], ok)]
       /\ HipCall(p, "hipMemcpy", <<"C", "d_C", "hipMemcpyDeviceToHost">>, ok)
       /\ hipErrorCheck(p, ok, 92, "reduce_gpu")
  /\ UNCHANGED <<cfg, mpi, wall, A, B, dev, evs, krn, milliseconds, red,
                 relative_difference, printed>>

\* ------------------------------------------------------------ MPI_Reduce
\* the root argument of lines 95 and 122
Root == 0

MaxOf(S) == CHOOSE m \in S : \A x \in S : x <= m

\* MPI_MIN in place of MPI_MAX
ReduceOpMin(contrib) ==
  LET S == {contrib[q] : q \in Ranks} IN CHOOSE m \in S : \A x \in S : m <= x

\* the op argument of lines 95 and 122: MPI_MAX over what the ranks sent
ReduceOp(contrib) == MaxOf({contrib[q] : q \in Ranks})

\* a root that does not wait for the other ranks
MayReturnEager(p, contrib) == contrib[p] # NoVal

\* MPI_Reduce returns at the root once every rank of the communicator has
\* sent its value; at another rank it may return as soon as its own value
\* is sent (a collective need not synchronise)
MayReturn(p, contrib) ==
  /\ contrib[p] # NoVal
  /\ p = Root => \A q \in Ranks : contrib[q] # NoVal

\* the arguments count, datatype, op, root of the call of line 122
WallReduceArgs == [count |-> 1, datatype |-> "MPI_DOUBLE", op |-> "MPI_MAX", root |-> Root]

\* the first reduction called with the datatype of the second
GpuReduceAsDouble == [count |-> 1, datatype |-> "MPI_DOUBLE", op |-> "MPI_MAX", root |-> Root]

\* the arguments count, datatype, op, root of the call of line 95
GpuReduceArgs == [count |-> 1, datatype |-> "MPI_FLOAT", op |-> "MPI_MAX", root |-> Root]

\* rank p calls MPI_Reduce with the arguments args
ReduceCall(p, args) ==
  /\ reduces' = [reduces EXCEPT ![p] = Append(@, args)]
  /\ UNCHANGED <<hip_calls, report>>

\* the first reduction left out before the check (the check first, as the
\* second reduction is)
ReduceGpuSkipped(p) ==
  /\ pc[p] = "reduce_gpu"
  /\ Goto(p, "verify")
  /\ UNCHANGED <<cfg, mpi, wall, host, dev, evs, krn, milliseconds, red,
                 relative_difference, printed, log>>

\* line 95, entering: the rank sends milliseconds
ReduceGpuEnter(p) ==
  /\ pc[p] = "reduce_gpu"
  /\ gpu_contrib' = [gpu_contrib EXCEPT ![p] = milliseconds[p]]
  /\ ReduceCall(p, GpuReduceArgs)
  /\ Goto(p, "reduce_gpu_wait")
  /\ UNCHANGED <<cfg, mpi, wall, host, dev, evs, krn, milliseconds, wall_contrib,
                 max_gpu_time, total_time_max, relative_difference, printed>>

\* line 95, returning: max_gpu_time is written at the root only
ReduceGpuReturn(p) ==
  /\ pc[p] = "reduce_gpu_wait"
  /\ MayReturn(p, gpu_contrib)
  /\ max_gpu_time' = [max_gpu_time EXCEPT ![p] =
                        IF p = Root THEN ReduceOp(gpu_contrib) ELSE @]
  /\ Goto(p, "verify")
  /\ UNCHANGED <<cfg, mpi, wall, host, dev, evs, krn, milliseconds, gpu_contrib,
                 wall_contrib, total_time_max, relative_difference, printed, log>>

\* ------------------------------------------------------------ verification
\* lines 97-100: the sum of the halves and of the quanta of C, an
\* uninitialised element reading as g
RECURSIVE SumW(_, _)
SumW(rs, g) ==
  IF rs = <<>> THEN 0
  ELSE rs[1].len * (IF IsDef(rs[1].val) THEN rs[1].val.w ELSE g.w) + SumW(Tail(rs), g)

RECURSIVE SumE(_, _)
SumE(rs, g) ==
  IF rs = <<>> THEN 0
  ELSE rs[1].len * (IF IsDef(rs[1].val) THEN rs[1].val.e ELSE g.e) + SumE(Tail(rs), g)

\* any relative difference of 2^-33 or more
RelSaturated == 2^20

\* lines 102-103: |sum / N - 1.0| in quanta.  When the halves do not add up
\* to N the difference is at least 1/(2N) - and N < 2^31 - which is far
\* above every tolerance of interest; otherwise it is the mean of the quanta.
RelDiff(w, e, n) ==
  IF w # 2 * n THEN RelSaturated ELSE RoundDiv(Abs(e), n)

\* the comparison of line 105 the wrong way round
FailedInverted(rel) == rel < TolQuanta

\* line 105: relative_difference > tolerance
Failed(rel) == rel > TolQuanta

\* line 107: the status of a failed verification
VerifyFailExit == 1

\* lines 97-108
Verify(p) ==
  /\ pc[p] = "verify"
  /\ \E g \in GarbageVals :
       LET rel == RelDiff(SumW(C[p].data, g), SumE(C[p].data, g), N) IN
       /\ relative_difference' = [relative_difference EXCEPT ![p] = rel]
       /\ IF Failed(rel)
          THEN /\ pc' = [pc EXCEPT ![p] = "exited"]
               /\ exit_code' = [exit_code EXCEPT ![p] = VerifyFailExit]
               /\ UNCHANGED hip_err
          ELSE Goto(p, "hipFree_A")
  /\ UNCHANGED <<cfg, mpi, wall, host, dev, evs, krn, milliseconds, red, printed, log>>

\* ------------------------------------------------------------ teardown
HipFree(old, ok) == IF ok THEN [st |-> "freed", data |-> <<>>] ELSE old

\* line 111
HipFreeA(p) ==
  /\ pc[p] = "hipFree_A"
  /\ \E ok \in BOOLEAN :
       /\ d_A' = [d_A EXCEPT ![p] = HipFree(d_A[p], ok)]
       /\ HipCall(p, "hipFree", <<"d_A">>, ok)
       /\ hipErrorCheck(p, ok, 111, "hipFree_B")
  /\ UNCHANGED <<cfg, mpi, wall, host, d_B, d_C, evs, krn, milliseconds, red,
                 relative_difference, printed>>

\* line 112
HipFreeB(p) ==
  /\ pc[p] = "hipFree_B"
  /\ \E ok \in BOOLEAN :
       /\ d_B' = [d_B EXCEPT ![p] = HipFree(d_B[p], ok)]
       /\ HipCall(p, "hipFree", <<"d_B">>, ok)
       /\ hipErrorCheck(p, ok, 112, "hipFree_C")
  /\ UNCHANGED <<cfg, mpi, wall, host, d_A, d_C, evs, krn, milliseconds, red,
                 relative_difference, printed>>

\* line 113
HipFreeC(p) ==
  /\ pc[p] = "hipFree_C"
  /\ \E ok \in BOOLEAN :
       /\ d_C' = [d_C EXCEPT ![p] = HipFree(d_C[p], ok)]
       /\ HipCall(p, "hipFree", <<"d_C">>, ok)
       /\ hipErrorCheck(p, ok, 113, "free")
  /\ UNCHANGED <<cfg, mpi, wall, host, d_A, d_B, evs, krn, milliseconds, red,
                 relative_difference, printed>>

Freed == [st |-> "freed", data |-> <<>>]

\* free(C) left out
HostFreeWithoutC(p) ==
  /\ pc[p] = "free"
  /\ A' = [A EXCEPT ![p] = Freed]
  /\ B' = [B EXCEPT ![p] = Freed]
  /\ Goto(p, "end_timer")
  /\ UNCHANGED <<cfg, mpi, wall, C, dev, evs, krn, milliseconds, red,
                 relative_difference, printed, log>>

\* lines 115-117
HostFree(p) ==
  /\ pc[p] = "free"
  /\ A' = [A EXCEPT ![p] = Freed]
  /\ B' = [B EXCEPT ![p] = Freed]
  /\ C' = [C EXCEPT ![p] = Freed]
  /\ Goto(p, "end_timer")
  /\ UNCHANGED <<cfg, mpi, wall, dev, evs, krn, milliseconds, red,
                 relative_difference, printed, log>>

\* lines 119-120
EndTimer(p) ==
  /\ pc[p] = "end_timer"
  /\ \E t \in start_time[p]..MaxWtime :
       /\ end_time' = [end_time EXCEPT ![p] = t]
       /\ elapsed_time' = [elapsed_time EXCEPT ![p] = t - start_time[p]]
  /\ Goto(p, "reduce_wall")
  /\ UNCHANGED <<cfg, mpi, start_time, host, dev, evs, krn, milliseconds, red,
                 relative_difference, printed, log>>

\* the second reduction called by rank 0 only
ReduceWallRootOnly(p) ==
  /\ pc[p] = "reduce_wall"
  /\ wall_contrib' = [wall_contrib EXCEPT ![p] = IF p = Root THEN elapsed_time[p] ELSE @]
  /\ IF p = Root THEN ReduceCall(p, WallReduceArgs) ELSE UNCHANGED log
  /\ Goto(p, IF p = Root THEN "reduce_wall_wait" ELSE "report")
  /\ UNCHANGED <<cfg, mpi, wall, host, dev, evs, krn, milliseconds, gpu_contrib,
                 max_gpu_time, total_time_max, relative_difference, printed>>

\* line 122, entering: the rank sends elapsed_time
ReduceWallEnter(p) ==
  /\ pc[p] = "reduce_wall"
  /\ wall_contrib' = [wall_contrib EXCEPT ![p] = elapsed_time[p]]
  /\ ReduceCall(p, WallReduceArgs)
  /\ Goto(p, "reduce_wall_wait")
  /\ UNCHANGED <<cfg, mpi, wall, host, dev, evs, krn, milliseconds, gpu_contrib,
                 max_gpu_time, total_time_max, relative_difference, printed>>

\* line 122, returning: total_time_max is written at the root only
ReduceWallReturn(p) ==
  /\ pc[p] = "reduce_wall_wait"
  /\ MayReturn(p, wall_contrib)
  /\ total_time_max' = [total_time_max EXCEPT ![p] =
                          IF p = Root THEN ReduceOp(wall_contrib) ELSE @]
  /\ Goto(p, "report")
  /\ UNCHANGED <<cfg, mpi, wall, host, dev, evs, krn, milliseconds, gpu_contrib,
                 wall_contrib, max_gpu_time, relative_difference, printed, log>>

\* the report printed by every rank
AnyRank(rank) == TRUE

\* line 124: if(rank == 0)
IsCoordinator(rank) == rank = 0

\* the number of millionths printf("%.6f", x / 1000.0) shows, lines 129-130
Per1000(x) == (x * 1000000) \div 1000

\* lines 124-131: if(rank == 0) the six printf of the report
Report(p) ==
  /\ pc[p] = "report"
  /\ printed' = [printed EXCEPT ![p] = IF IsCoordinator(p) THEN @ + 1 ELSE @]
  /\ report' = [report EXCEPT ![p] =
                  IF IsCoordinator(p)
                  THEN [max_gpu_time |-> max_gpu_time[p],
                        total_time_max |-> total_time_max[p],
                        gpu_s |-> Per1000(max_gpu_time[p]),
                        mpi_s |-> Per1000(total_time_max[p])]
                  ELSE @]
  /\ Goto(p, "MPI_Finalize")
  /\ UNCHANGED <<cfg, mpi, wall, host, dev, evs, krn, milliseconds, red,
                 relative_difference, hip_calls, reduces>>

\* line 132
MpiFinalize(p) ==
  /\ pc[p] = "MPI_Finalize"
  /\ mpi' = [mpi EXCEPT ![p] = "finalized"]
  /\ Goto(p, "return")
  /\ UNCHANGED <<cfg, wall, host, dev, evs, krn, milliseconds, red,
                 relative_difference, printed, log>>

\* line 133: return 0
Return(p) ==
  /\ pc[p] = "return"
  /\ pc' = [pc EXCEPT ![p] = "returned"]
  /\ exit_code' = [exit_code EXCEPT ![p] = 0]
  /\ UNCHANGED <<hip_err, cfg, mpi, wall, host, dev, evs, krn, milliseconds, red,
                 relative_difference, printed, log>>

\* ------------------------------------------------------------ the program
Next ==
  \E p \in Ranks :
    \/ MpiInit(p)
    \/ StartTimer(p)
    \/ HostAlloc(p)
    \/ SeedLoop(p)
    \/ SeedLoopNull(p)
    \/ HipMallocA(p)
    \/ HipMallocB(p)
    \/ HipMallocC(p)
    \/ HipMemcpyA(p)
    \/ HipMemcpyB(p)
    \/ HipEventCreateStart(p)
    \/ HipEventCreateEnd(p)
    \/ SetConfig(p)
    \/ HipEventRecordStart(p)
    \/ Launch(p)
    \/ KernelRun(p)
    \/ HipEventRecordEnd(p)
    \/ HipEventSynchronize(p)
    \/ HipEventElapsedTime(p)
    \/ HipMemcpyC(p)
    \/ ReduceGpuEnter(p)
    \/ ReduceGpuReturn(p)
    \/ Verify(p)
    \/ HipFreeA(p)
    \/ HipFreeB(p)
    \/ HipFreeC(p)
    \/ HostFree(p)
    \/ EndTimer(p)
    \/ ReduceWallEnter(p)
    \/ ReduceWallReturn(p)
    \/ Report(p)
    \/ MpiFinalize(p)
    \/ Return(p)

Spec == Init /\ [][Next]_vars

\* a step of rank p or of the device attached to it
StepOf(p) ==
  /\ p \in Ranks
  /\ Next
  /\ <<pc[p], kernel[p]>>' # <<pc[p], kernel[p]>>

\* The runs checked for liveness: every length with one rank, the length 1
\* with more (which steps a rank can take does not depend on N, except for
\* the outcome of the verification, and both outcomes occur with N = 1).
InitFair == Init /\ (size > 1 => N = 1)

\* every rank is a running process, and every device runs what is queued on it
FairSpec ==
  InitFair /\ [][Next]_vars /\ \A p \in 0..(MaxRanks - 1) : WF_vars(StepOf(p))

\* ------------------------------------------------------------ properties
Aborted(p) == pc[p] \in {"exited", "crashed"}
DevLive(p) == d_A[p].st = "ok" /\ d_B[p].st = "ok" /\ d_C[p].st = "ok"
GridSize(p) == ThrPerBlk * blk_in_grid[p]

\* C1: once the kernel has completed, every index in [0, N) of the device
\* output holds A[i] + B[i]: the whole of d_C is the elementwise sum of d_A
\* and d_B.
C1_KernelCoversAll ==
  \A p \in Ranks :
    kernel[p] = "done" /\ DevLive(p) =>
      d_C[p].data = Norm(ZipAdd(d_A[p].data, d_B[p].data))

\* C2: no work-item accesses a buffer at an index outside [0, N): the
\* work-items with id >= N fail the guard, and those that pass it are at most N.
C2_BoundaryGuard ==
  \A p \in Ranks :
    /\ oob[p] = {}
    /\ kernel[p] = "done" =>
         /\ Active(ThrPerBlk, blk_in_grid[p], N) <= N
         /\ \A id \in N..(GridSize(p) - 1) : ~Guard(id, N)

\* a completed grid that has work-items beyond the end of the buffers
C2_Witness ==
  \E p \in Ranks : kernel[p] = "done" /\ GridSize(p) > N /\ N % ThrPerBlk # 0

\* C3 as stated: a process that fails verification has contributed to neither
\* the device-time reduction nor the wall-time reduction.
C3_ContributesToNeither ==
  \A p \in Ranks :
    exit_code[p] = VerifyFailExit =>
      gpu_contrib[p] = NoVal /\ wall_contrib[p] = NoVal

\* C3 amended: a process that fails verification has already contributed its
\* device time to the first reduction and contributes nothing to the
\* wall-time reduction.
C3_ContributesToFirstOnly ==
  \A p \in Ranks :
    exit_code[p] = VerifyFailExit =>
      /\ gpu_contrib[p] # NoVal
      /\ gpu_contrib[p] = milliseconds[p]
      /\ wall_contrib[p] = NoVal
      /\ elapsed_time[p] = NoVal

C3_Witness ==
  \E p \in Ranks : pc[p] = "exited" /\ exit_code[p] = VerifyFailExit

\* C4: a process stopped by hipErrorCheck has a non-zero exit status.
C4_HipErrorExitsNonZero ==
  \A p \in Ranks : hip_err[p] # 0 => pc[p] = "exited" /\ exit_code[p] # 0

\* the rank has computed its relative difference and it is within tolerance
Passed(p) ==
  relative_difference[p] # NoVal /\ relative_difference[p] <= TolQuanta

C6_ReduceIsMax ==
  /\ max_gpu_time[Root] # NoVal =>
       /\ \A q \in Ranks : max_gpu_time[Root] >= milliseconds[q]
       /\ \E q \in Ranks : max_gpu_time[Root] = milliseconds[q]
       /\ \A q \in Ranks : milliseconds[q] # NoVal
  /\ total_time_max[Root] # NoVal =>
       /\ \A q \in Ranks : total_time_max[Root] >= elapsed_time[q]
       /\ \E q \in Ranks : total_time_max[Root] = elapsed_time[q]
       /\ \A q \in Ranks : elapsed_time[q] # NoVal

\* both reductions have returned at rank 0 and the maxima are those of rank 1
C6_Witness ==
  /\ size > 1
  /\ max_gpu_time[Root] # NoVal /\ max_gpu_time[Root] > milliseconds[Root]
  /\ total_time_max[Root] # NoVal /\ total_time_max[Root] > elapsed_time[Root]

\* q ended without entering the first (second) reduction
MissedGpu(q) == Aborted(q) /\ gpu_contrib[q] = NoVal
MissedWall(q) == Aborted(q) /\ wall_contrib[q] = NoVal

C9_AllReleased ==
  \A p \in Ranks :
    pc[p] = "returned" =>
      /\ d_A[p].st = "freed" /\ d_B[p].st = "freed" /\ d_C[p].st = "freed"
      /\ ev_start[p] = "destroyed" /\ ev_end[p] = "destroyed"

\* C10: a process one of whose host allocations failed never dereferences the
\* null pointer (it is not killed by the store through it), has written no
\* element of a host buffer and has made no device call.
C10_HostAllocFailureFatal ==
  \A p \in Ranks :
    (A[p].st = "null" \/ B[p].st = "null" \/ C[p].st = "null") =>
      /\ pc[p] # "crashed"
      /\ A[p].data \in {<<>>, Fill(N, Undef)}
      /\ B[p].data \in {<<>>, Fill(N, Undef)}
      /\ d_A[p].st = "none"

\* every rank has completed both reductions, called MPI_Finalize and returned
\* 0, and rank 0 alone has printed the report, once
AllDone ==
  \A p \in Ranks :
    /\ pc[p] = "returned" /\ exit_code[p] = 0
    /\ mpi[p] = "finalized"
    /\ gpu_contrib[p] # NoVal /\ wall_contrib[p] # NoVal
    /\ printed[p] = (IF p = Root THEN 1 ELSE 0)

\* the report is printed at most once, by rank 0, after its second reduction
ReportOnce ==
  \A p \in Ranks :
    /\ printed[p] <= (IF p = Root THEN 1 ELSE 0)
    /\ printed[p] = 1 => total_time_max[p] # NoVal /\ max_gpu_time[p] # NoVal

\* C8: in a fair run in which no rank fails verification and no device-API
\* call fails (no rank aborts), every rank eventually completes both
\* reductions, calls MPI_Finalize and returns 0, and rank 0 prints the report
\* exactly once, after the second reduction.
C8_FairRunCompletes ==
  /\ []ReportOnce
  /\ ([](\A p \in Ranks : ~Aborted(p))) => <>[]AllDone

\* a run of two ranks that has completed
C8_Witness == size > 1 /\ AllDone

\* s is an initial part of t
IsPrefix(s, t) == Len(s) <= Len(t) /\ \A k \in 1..Len(s) : s[k] = t[k]

\* C11: the reductions a rank has called are an initial part of the sequence
\* (float MAX rooted at 0, double MAX rooted at 0) - never the other order,
\* never a third; a rank that has returned from main has called both; and the
\* k-th reduction of one rank has the arguments of the k-th of every other.
C11_TwoReductionsInOrder ==
  \A p \in Ranks :
    /\ IsPrefix(reduces[p],
                <<[count |-> 1, datatype |-> "MPI_FLOAT", op |-> "MPI_MAX", root |-> 0],
                  [count |-> 1, datatype |-> "MPI_DOUBLE", op |-> "MPI_MAX", root |-> 0]>>)
    /\ pc[p] = "returned" => Len(reduces[p]) = 2
    /\ \A q \in Ranks :
         \A k \in 1..Min(Len(reduces[p]), Len(reduces[q])) : reduces[p][k] = reduces[q][k]

\* two ranks have returned from main, each after two reductions
C11_Witness ==
  /\ size > 1
  /\ \A p \in Ranks : pc[p] = "returned" /\ Len(reduces[p]) = 2

\* C12: once the execution configuration is set, blk_in_grid is the ceiling
\* of N / 256: the grid has at least N work-items, and one group fewer would
\* have fewer than N.
C12_GridIsCeiling ==
  \A p \in Ranks :
    blk_in_grid[p] # 0 =>
      /\ blk_in_grid[p] = CeilDiv(N, ThrPerBlk)
      /\ ThrPerBlk * blk_in_grid[p] >= N
      /\ ThrPerBlk * (blk_in_grid[p] - 1) < N

\* the number of millionths in x thousandths, and in x units
MilliInMicro(x) == 1000 * x
UnitInMicro(x) == 1000000 * x

\* C13: the wall time rank 0 prints is, in seconds, the maximum over the ranks
\* of end_time - start_time (MPI_Wtime counts seconds), and the device time it
\* prints is the maximum of the ranks' milliseconds as seconds; start_time is
\* taken before the host buffers are allocated and end_time after the host and
\* device buffers are released.
C13_ReportedTimes ==
  /\ \A p \in Ranks :
       /\ A[p].st # "none" => start_time[p] # NoVal
       /\ end_time[p] # NoVal =>
            /\ elapsed_time[p] = end_time[p] - start_time[p]
            /\ A[p].st = "freed" /\ B[p].st = "freed" /\ C[p].st = "freed"
            /\ d_A[p].st = "freed" /\ d_B[p].st = "freed" /\ d_C[p].st = "freed"
  /\ report[Root] # NoReport =>
       /\ report[Root].gpu_s = MilliInMicro(MaxOf({milliseconds[q] : q \in Ranks}))
       /\ report[Root].mpi_s = UnitInMicro(MaxOf({elapsed_time[q] : q \in Ranks}))

\* the three host buffers of rank p
HostBufs(p) == <<A[p], B[p], C[p]>>

\* where a rank is once it is past the free calls of lines 115-117
AfterFree ==
  {"end_timer", "reduce_wall", "reduce_wall_wait", "report", "MPI_Finalize",
   "return", "returned"}

\* a step changes what malloc returned for a host buffer, or releases it, only
\* as follows: the buffer is allocated when there is none yet, at lines 57-59,
\* and it is released when it is allocated, at lines 115-117; its elements
\* change only in the seeding loop (and, for C, in the copy of line 92)
HostBufStep(p, old, new, isC) ==
  /\ new.st # old.st =>
       \/ old.st = "none" /\ new.st \in {"ok", "null"} /\ pc[p] = "malloc"
       \/ old.st = "ok" /\ new.st = "freed" /\ pc[p] = "free"
  /\ new.st = old.st /\ new.data # old.data =>
       pc[p] = "seed" \/ (isC /\ pc[p] = "hipMemcpy_C")

\* C14: each host buffer is allocated once, filled once and, on the normal
\* path, freed once, after the verification sum has read C; a freed buffer is
\* never read, written or freed again (the rank is past every statement that
\* uses it); a rank that returns has freed the three; and a rank that exits on
\* a failed verification has released no host and no device buffer.
C14_HostBufferLifecycle ==
  /\ [](\A p \in Ranks :
          /\ \A k \in 1..3 :
               HostBufs(p)[k].st = "freed" =>
                 /\ pc[p] \in AfterFree
                 /\ Passed(p)
                 /\ \A j \in 1..3 : HostBufs(p)[j].st = "freed"
          /\ pc[p] \in AfterFree => \A k \in 1..3 : HostBufs(p)[k].st = "freed"
          /\ exit_code[p] = VerifyFailExit =>
               /\ \A k \in 1..3 : HostBufs(p)[k].st = "ok"
               /\ DevLive(p))
  /\ [][\A p \in Ranks :
          /\ HostBufStep(p, A[p], A'[p], FALSE)
          /\ HostBufStep(p, B[p], B'[p], FALSE)
          /\ HostBufStep(p, C[p], C'[p], TRUE)]_vars

\* one rank has returned with its host buffers freed and another has exited
\* on a failed verification with its buffers still allocated
C14_Witness ==
  \E p, q \in Ranks :
    /\ pc[p] = "returned" /\ C[p].st = "freed"
    /\ exit_code[q] = VerifyFailExit /\ C[q].st = "ok" /\ d_C[q].st = "ok"

\* the name and the arguments of a logged call
Sig(c) == <<c.fn, c.args>>

\* the calls of rank p that copy buffers, record or wait for a timestamp,
\* dispatch the kernel or read the elapsed time
TimedCalls(p) ==
  LET s == SelectSeq(hip_calls[p],
                     LAMBDA c : c.fn \in {"hipMemcpy", "hipEventRecord",
                                          "hipLaunchKernelGGL", "hipEventSynchronize",
                                          "hipEventElapsedTime"})
  IN  [k \in 1..Len(s) |-> Sig(s[k])]

\* lines 73-92 in program order
TimingOrder ==
  << <<"hipMemcpy", <<"d_A", "A", "hipMemcpyHostToDevice">> >>,
     <<"hipMemcpy", <<"d_B", "B", "hipMemcpyHostToDevice">> >>,
     <<"hipEventRecord", <<"start">> >>,
     <<"hipLaunchKernelGGL", <<"add_vectors", "d_A", "d_B", "d_C">> >>,
     <<"hipEventRecord", <<"end">> >>,
     <<"hipEventSynchronize", <<"end">> >>,
     <<"hipEventElapsedTime", <<"milliseconds", "start", "end">> >>,
     <<"hipMemcpy", <<"C", "d_C", "hipMemcpyDeviceToHost">> >> >>

\* the k-th call of rank p is fn(args)
IsCall(p, k, fn, args) ==
  k \in 1..Len(hip_calls[p]) /\ Sig(hip_calls[p][k]) = <<fn, args>>

\* rank p has returned from hipEventSynchronize(end) with hipSuccess
Synchronized(p) ==
  \E k \in 1..Len(hip_calls[p]) :
    IsCall(p, k, "hipEventSynchronize", <<"end">>) /\ hip_calls[p][k].ok

\* C15: the copies, timestamp records, dispatch, synchronisation and reads of
\* a rank occur in the order copy A, copy B, record start, dispatch, record
\* end, synchronise on end, read elapsed time, copy C back; the call after
\* the record of start is the dispatch and the one after it the record of
\* end; and the elapsed time and the device output are read only after the
\* synchronisation has returned, when the kernel is no longer pending.
C15_TimingWindowOrder ==
  \A p \in Ranks :
    /\ IsPrefix(TimedCalls(p), TimingOrder)
    /\ \A k \in 1..Len(hip_calls[p]) :
         /\ IsCall(p, k, "hipEventRecord", <<"start">>) /\ k < Len(hip_calls[p]) =>
              hip_calls[p][k + 1].fn = "hipLaunchKernelGGL"
         /\ IsCall(p, k, "hipEventRecord", <<"end">>) =>
              /\ hip_calls[p][k - 1].fn = "hipLaunchKernelGGL"
              /\ IsCall(p, k - 2, "hipEventRecord", <<"start">>)
         /\ hip_calls[p][k].fn = "hipEventElapsedTime"
              \/ Sig(hip_calls[p][k]) = <<"hipMemcpy", <<"C", "d_C", "hipMemcpyDeviceToHost">> >> =>
              /\ Synchronized(p)
              /\ kernel[p] # "queued"
    /\ milliseconds[p] # NoVal => Synchronized(p) /\ kernel[p] # "queued"
    /\ pc[p] \in {"hipEventElapsedTime", "hipMemcpy_C"} =>
         Synchronized(p) /\ kernel[p] # "queued"

\* a rank has copied C back after a kernel that was pending when the end
\* timestamp was recorded has run
C15_Witness ==
  \E p \in Ranks :
    /\ Len(TimedCalls(p)) = Len(TimingOrder)
    /\ kernel[p] = "done"
    /\ C[p].data = d_C[p].data
    /\ pc[p] = "reduce_gpu"

\* line 24: the indices of c the work-item id writes, and of a and b it reads
Writes(id, n) == IF Guard(id, n) THEN {id} ELSE {}
Reads(id, n) == IF Guard(id, n) THEN {id} ELSE {}

\* the work-items <<blockIdx, threadIdx>> of a grid of blk groups of thr that
\* write index i; GlobalId is within thr of thr * blockIdx, so only the
\* groups next to i \div thr can hold one
Writers(i, thr, blk, n) ==
  {w \in ({i \div thr - 1, i \div thr, i \div thr + 1} \cap (0..(blk - 1)))
           \X (0..(thr - 1)) :
     i \in Writes(GlobalId(thr, w[1], w[2]), n)}

\* the first and the last index of the buffers, and the last of the first
\* 2^24
EndIndices == {0, Min(N, 2^24) - 1, N - 1}

\* C16: when the kernel has run, each index in [0, N) - checked at the ends
\* of the range - was written by exactly one work-item, and each work-item
\* of the groups around it writes at most one element and reads only the
\* elements of a and b at its own id.
C16_OneWriterPerIndex ==
  \A p \in Ranks :
    kernel[p] = "done" =>
      \A i \in EndIndices :
        /\ Cardinality(Writers(i, ThrPerBlk, blk_in_grid[p], N)) = 1
        /\ \A w \in Writers(i, ThrPerBlk, blk_in_grid[p], N) :
             LET id == GlobalId(ThrPerBlk, w[1], w[2]) IN
             /\ Cardinality(Writes(id, N)) <= 1
             /\ Reads(id, N) \subseteq {id}

\* rank p has copied d_C into C (line 92 returned hipSuccess) and C is not
\* freed yet
CopiedBack(p) ==
  /\ C[p].st = "ok"
  /\ \E k \in 1..Len(hip_calls[p]) :
       /\ IsCall(p, k, "hipMemcpy", <<"C", "d_C", "hipMemcpyDeviceToHost">>)
       /\ hip_calls[p][k].ok

\* what the grid of line 85 leaves in a fresh device buffer, from the inputs
\* of rank p
KernelOutput(p) ==
  add_vectors(A[p].data, B[p].data, Fill(N, Undef), N, ThrPerBlk, blk_in_grid[p])

\* the frame of a step, for rank p: host A and B keep their elements from
\* the seeding loop until they are freed, the kernel leaves d_A and d_B as
\* they are, and the elements of d_C change only when the kernel runs
InputsKept(p) ==
  /\ A'[p] # A[p] \/ B'[p] # B[p] => pc[p] \in {"malloc", "seed", "free"}
  /\ kernel'[p] # kernel[p] => d_A'[p] = d_A[p] /\ d_B'[p] = d_B[p]
  /\ d_C'[p] # d_C[p] =>
       \/ pc[p] \in {"hipMalloc_C", "hipFree_C"}
       \/ kernel[p] = "queued" /\ kernel'[p] = "done"

\* C17: host A and B do not change after the seeding loop until they are
\* freed; the kernel leaves device A and B unchanged; the host-to-device
\* copies are those of A and of B, never of C; only the kernel writes the
\* elements of device C; and host C after the copy back is the kernel's
\* output, not the zeros it was initialised with.
C17_InputsImmutable ==
  /\ [][\A p \in Ranks : InputsKept(p)]_vars
  /\ [](\A p \in Ranks :
          /\ \A k \in 1..Len(hip_calls[p]) :
               hip_calls[p][k].fn = "hipMemcpy"
                 /\ hip_calls[p][k].args[3] = "hipMemcpyHostToDevice" =>
                 <<hip_calls[p][k].args[1], hip_calls[p][k].args[2]>>
                   \in {<<"d_A", "A">>, <<"d_B", "B">>}
          /\ CopiedBack(p) =>
               /\ C[p].data = KernelOutput(p)
               /\ C[p].data # Fill(N, Zero))

\* C18: a rank other than 0 never gets a value in max_gpu_time or
\* total_time_max and never reads or prints them; what rank 0 read of each
\* when it printed is the value the corresponding reduction had returned to
\* it, the maximum over all the ranks.
C18_OutputsAtCoordinatorOnly ==
  /\ \A p \in Ranks \ {Root} :
       /\ max_gpu_time[p] = NoVal /\ total_time_max[p] = NoVal
       /\ report[p] = NoReport
       /\ printed[p] = 0
  /\ printed[Root] > 0 <=> report[Root] # NoReport
  /\ report[Root] # NoReport =>
       /\ report[Root].max_gpu_time # NoVal
       /\ report[Root].max_gpu_time = ReduceOp(gpu_contrib)
       /\ report[Root].total_time_max # NoVal
       /\ report[Root].total_time_max = ReduceOp(wall_contrib)
       /\ \A q \in Ranks : gpu_contrib[q] # NoVal /\ wall_contrib[q] # NoVal

\* rank 0 has printed the report and another rank has gone past the report
\* without printing
C18_Witness ==
  /\ report[Root] # NoReport
  /\ \E q \in Ranks \ {Root} : pc[q] = "returned"

\* C19: a HIP call that fails, the kernel dispatch included, is the last call
\* its rank makes and the rank has exited; after a dispatch that failed the
\* elapsed time is never read nor sent to a reduction and d_C is never copied
\* back nor summed.
C19_EveryStatusChecked ==
  \A p \in Ranks :
    /\ \A k \in 1..Len(hip_calls[p]) :
         ~hip_calls[p][k].ok => k = Len(hip_calls[p]) /\ pc[p] = "exited"
    /\ kernel[p] = "failed" =>
         /\ pc[p] = "exited"
         /\ milliseconds[p] = NoVal /\ gpu_contrib[p] = NoVal
         /\ ~CopiedBack(p) /\ relative_difference[p] = NoVal

=============================================================================
